---------------------------- MODULE Spec2Model ----------------------------
(***************************************************************************)
(* QuMail QKD Key Manager (src/backend/app.py).                            *)
(*                                                                         *)
(* State: the two SQLite tables qkd_keys and key_usage_log, the wall clock *)
(* read by datetime.utcnow(), and the HTTP response that the request       *)
(* handled in the last step returned (none once time has moved on).        *)
(* One action per Flask route; every route is modelled whole, including    *)
(* the QKDKeyManager method it calls.                                      *)
(*                                                                         *)
(* Time is counted in ticks, TicksPerSecond ticks to a second.  Timestamps *)
(* are stored as ISO-8601 text; the text is modelled by its seconds part   *)
(* and its fractional part (isoformat() omits the fraction when it is 0).  *)
(*                                                                         *)
(* The mail clients (src/send_email.py, src/recv_email.py and the pair in  *)
(* src/email_client) are a second specification, CodecSpec: mail is the    *)
(* one letter under way, from send_encrypted_email to decrypt_qumail_email.*)
(* Texts, bytes and base64 are computed as Python computes them; the AES   *)
(* cipher of the library is modelled by its contract.                      *)
(*                                                                         *)
(* Three more specifications share the state.  ConcurrentSpec runs get_key *)
(* as its three database steps, with the calls under way in inflight.     *)
(* SendSpec has /login, /send_email and /send_email_api, with the sessions *)
(* in user_sessions.  FaultSpec adds the requests during which the INSERT  *)
(* into key_usage_log raises.                                              *)
(***************************************************************************)
EXTENDS Integers, Sequences, FiniteSets, TLC

\* ------------------------------------------------------------------ bounds
MaxTime == 3          \* the clock stops advancing here
MaxDrift == 1         \* ticks that may pass between two utcnow() reads
MaxKeys == 2          \* rows of qkd_keys
MaxLog == 3           \* rows of key_usage_log
MaxLifetime == 1      \* largest explicit lifetime, in ticks
MaxLen == 2           \* characters of a plaintext

\* ------------------------------------------------------- program constants
TicksPerSecond == 2
StartTime == 1
DefaultLifetimeSeconds == 3600
ListLimit == 50
SendEmailLifetimeSeconds == 3600
SessionLifetimeSeconds == 86400
AppPasswordLength == 16
Space == 32

\* values secrets.token_hex(16) / get_random_bytes(32) may return
KeyIdDraws == {"a3f1", "09bc"}
KeyByteDraws == {"5d2e"}
Senders == {"", "a@x"}
Recipients == {"", "b@x"}
\* values secrets.token_hex(32) may return; the session_id of a request is
\* one of them or is missing
SessionDraws == {"5e55", "77aa"}
SessionIds == {""} \cup SessionDraws
\* addresses, app passwords (code points) and connection test outcomes of
\* the requests to /login
LoginEmails == {"", "a@x", "a@x.io"}
AppPasswords == {<<>>, [i \in 1 .. AppPasswordLength |-> 97],
                 [i \in 1 .. AppPasswordLength |-> IF i = 3 THEN Space ELSE 97]}
ConnectionTests == {"ok", "smtp_auth", "imap", "timeout", "dns", "other"}
\* fields of the requests to /send_email and /send_email_api
Subjects == {"", "hi"}
Bodies == {"", "text"}
SmtpOutcomes == {"sent", "smtp_auth", "smtp"}
\* code points a message body is made of: one and two bytes in UTF-8
CodePoints == {65, 233}
\* key bytes the Key Manager may hand out and nonces the cipher may draw
KeyDraws == {<<17, 34>>, <<17, 35>>}
NonceDraws == {<<5>>, <<9>>}
\* line ends a delivered body may have
LineEnds == {"LF", "CRLF"}
\* the JSON field 'lifetime': <<>> when absent, <<l>> when present (ticks)
LifetimeArgs == {<<>>} \cup {<<l>> : l \in (0 - 1) .. MaxLifetime}

VARIABLES qkd_keys, key_usage_log, now, response, issued, reportedExpired,
          mail, user_sessions, inflight, found_calls

vars == <<qkd_keys, key_usage_log, now, response, issued, reportedExpired,
         mail, user_sessions, inflight, found_calls>>

\* ------------------------------------------------------------- timestamps
\* datetime.isoformat() + 'Z'
IsoFormat(t) == [sec |-> t \div TicksPerSecond, frac |-> t % TicksPerSecond]

\* datetime.fromisoformat(text.replace('Z', '+00:00'))
FromIsoFormat(s) == s.sec * TicksPerSecond + s.frac

\* comparison of two timestamp texts as SQLite compares TEXT (bytewise):
\* after the seconds, a text without fraction continues with 'Z' and one
\* with a fraction continues with '.', and '.' < 'Z'.
IsoTextLess(a, b) ==
    \/ a.sec < b.sec
    \/ /\ a.sec = b.sec
       /\ \/ a.frac # 0 /\ b.frac = 0
          \/ a.frac # 0 /\ b.frac # 0 /\ a.frac < b.frac

\* ------------------------------------------------------------ QKDKeyManager
\* generate_key_id
generate_key_id(draw) == <<"qkd", draw>>

\* base64 of generate_quantum_key(32)
generate_quantum_key(draw) == <<"b64", draw>>

\* request.get_json().get('lifetime', 3600)
LifetimeOf(arg) ==
    IF arg = <<>> THEN DefaultLifetimeSeconds * TicksPerSecond ELSE arg[1]

\* created_at text: first clock read
CreatedAt(t1) == IsoFormat(t1)

\* variant: the timedelta is left out
ExpiresAtNoLifetime(t2, lifetime) == IsoFormat(t2)

\* expires_at text: second clock read plus timedelta(seconds=lifetime)
ExpiresAt(t2, lifetime) == IsoFormat(t2 + lifetime)

\* the row INSERTed by request_key; status takes the column default
NewKeyRow(key_id, key_b64, sender, recipient, created_at, expires_at) ==
    [key_id |-> key_id, key_b64 |-> key_b64, sender |-> sender,
     recipient |-> recipient, created_at |-> created_at,
     expires_at |-> expires_at, status |-> "active",
     algorithm |-> "AES-256-GCM"]

\* variant: INSERT OR REPLACE
InsertKeyReplace(table, row) ==
    [ok |-> TRUE,
     table |-> Append(SelectSeq(table, LAMBDA r : r.key_id # row.key_id), row)]

\* variant: key_id is not a PRIMARY KEY
InsertKeyNoPrimaryKey(table, row) == [ok |-> TRUE, table |-> Append(table, row)]

\* INSERT INTO qkd_keys under the PRIMARY KEY constraint on key_id:
\* a duplicate key_id raises IntegrityError and the table is untouched
InsertKey(table, row) ==
    IF \E i \in 1 .. Len(table) : table[i].key_id = row.key_id
    THEN [ok |-> FALSE, table |-> table]
    ELSE [ok |-> TRUE, table |-> Append(table, row)]

\* INSERT INTO key_usage_log; id is AUTOINCREMENT
LogRow(log, key_id, action, timestamp, details) ==
    [id |-> Len(log) + 1, key_id |-> key_id, action |-> action,
     timestamp |-> timestamp, details |-> details]

\* variant: the KEY_GENERATED row is written with the action of an access
LogGeneratedAsAccessed(log, key_id, created_at) ==
    Append(log, LogRow(log, key_id, "KEY_ACCESSED", created_at, "Generated"))

\* variant: the KEY_GENERATED row is not written
LogGeneratedMissing(log, key_id, created_at) == log

LogGenerated(log, key_id, created_at) ==
    Append(log, LogRow(log, key_id, "KEY_GENERATED", created_at, "Generated"))

\* variant: the KEY_ACCESSED row is not written
LogAccessedMissing(log, key_id, timestamp) == log

\* variant: one KEY_ACCESSED row is kept for a key and an instant
LogAccessedOnce(log, key_id, timestamp) ==
    IF \E n \in 1 .. Len(log) :
          /\ log[n].key_id = key_id
          /\ log[n].action = "KEY_ACCESSED"
          /\ log[n].timestamp = timestamp
    THEN log
    ELSE Append(log, LogRow(log, key_id, "KEY_ACCESSED", timestamp,
                            "Key retrieved for decryption"))

\* variant: the KEY_ACCESSED row is put in front of the older rows
LogAccessedInFront(log, key_id, timestamp) ==
    <<LogRow(log, key_id, "KEY_ACCESSED", timestamp,
             "Key retrieved for decryption")>> \o log

LogAccessed(log, key_id, timestamp) ==
    Append(log, LogRow(log, key_id, "KEY_ACCESSED", timestamp,
                       "Key retrieved for decryption"))

\* SELECT ... FROM qkd_keys WHERE key_id = ? ; fetchone()
SelectKey(table, key_id) ==
    SelectSeq(table, LAMBDA r : r.key_id = key_id)

\* variant: expiry is noticed one tick late
IsExpiredLate(t, expires_at) == t > FromIsoFormat(expires_at) + 1

\* utcnow() > fromisoformat(expires_at)
IsExpired(t, expires_at) == t > FromIsoFormat(expires_at)

\* variant: the UPDATE is not executed
UpdateExpiredSkipped(table, key_id) == table

\* variant: the UPDATE also rewrites expires_at
UpdateExpiredAndExpiry(table, key_id) ==
    [i \in 1 .. Len(table) |->
        IF table[i].key_id = key_id
        THEN [table[i] EXCEPT !.status = "expired",
                              !.expires_at = table[i].created_at]
        ELSE table[i]]

\* UPDATE qkd_keys SET status = 'expired' WHERE key_id = ?
UpdateExpired(table, key_id) ==
    [i \in 1 .. Len(table) |->
        IF table[i].key_id = key_id
        THEN [table[i] EXCEPT !.status = "expired"]
        ELSE table[i]]

\* variant: key_data['status'] is not overwritten
KeyDataStale(row, expired) ==
    [key_id |-> row.key_id, key_b64 |-> row.key_b64, sender |-> row.sender,
     recipient |-> row.recipient, created_at |-> row.created_at,
     expires_at |-> row.expires_at, status |-> row.status,
     algorithm |-> row.algorithm]

\* the dict get_key returns for a row
KeyData(row, expired) ==
    [key_id |-> row.key_id, key_b64 |-> row.key_b64, sender |-> row.sender,
     recipient |-> row.recipient, created_at |-> row.created_at,
     expires_at |-> row.expires_at,
     status |-> IF expired THEN "expired" ELSE row.status,
     algorithm |-> row.algorithm]

\* ------------------------------------------------------------------- bytes
\* exclusive or of two bytes
RECURSIVE BitXor(_, _)
BitXor(a, b) ==
    IF a = 0 THEN b
    ELSE IF b = 0 THEN a
    ELSE (2 * BitXor(a \div 2, b \div 2)) + ((a + b) % 2)

\* str.encode('utf-8') of one code point that is not a surrogate
Utf8Char(cp) ==
    IF cp < 128 THEN <<cp>>
    ELSE IF cp < 2048 THEN <<192 + (cp \div 64), 128 + (cp % 64)>>
    ELSE IF cp < 65536
    THEN <<224 + (cp \div 4096), 128 + ((cp \div 64) % 64), 128 + (cp % 64)>>
    ELSE <<240 + (cp \div 262144), 128 + ((cp \div 4096) % 64),
           128 + ((cp \div 64) % 64), 128 + (cp % 64)>>

\* str.encode('utf-8')
RECURSIVE Utf8Encode(_)
Utf8Encode(str) ==
    IF str = <<>> THEN <<>>
    ELSE Utf8Char(Head(str)) \o Utf8Encode(Tail(str))

IsContinuation(b) == b >= 128 /\ b < 192

\* bytes.decode('utf-8'), strict: [ok, str]
RECURSIVE Utf8Decode(_)
Utf8Decode(bytes) ==
    IF bytes = <<>> THEN [ok |-> TRUE, str |-> <<>>]
    ELSE LET b == bytes[1]
             n == IF b < 128 THEN 1
                  ELSE IF b >= 194 /\ b < 224 THEN 2
                  ELSE IF b >= 224 /\ b < 240 THEN 3
                  ELSE IF b >= 240 /\ b < 245 THEN 4
                  ELSE 0
         IN  IF n = 0 \/ Len(bytes) < n
                  \/ \E i \in 2 .. n : ~ IsContinuation(bytes[i])
             THEN [ok |-> FALSE, str |-> <<>>]
             ELSE LET cp == IF n = 1 THEN b
                            ELSE IF n = 2
                            THEN ((b - 192) * 64) + (bytes[2] - 128)
                            ELSE IF n = 3
                            THEN ((b - 224) * 4096) + ((bytes[2] - 128) * 64)
                                     + (bytes[3] - 128)
                            ELSE ((b - 240) * 262144)
                                     + ((bytes[2] - 128) * 4096)
                                     + ((bytes[3] - 128) * 64)
                                     + (bytes[4] - 128)
                      rest == Utf8Decode(SubSeq(bytes, n + 1, Len(bytes)))
                  IN  IF (n = 3 /\ (cp < 2048 \/ (cp >= 55296 /\ cp < 57344)))
                          \/ (n = 4 /\ (cp < 65536 \/ cp > 1114111))
                          \/ ~ rest.ok
                      THEN [ok |-> FALSE, str |-> <<>>]
                      ELSE [ok |-> TRUE, str |-> <<cp>> \o rest.str]

\* a base64 text is the sequence of the alphabet indices 0 .. 63 of its
\* characters, with B64Pad for '='
B64Pad == 64

\* base64.b64encode
RECURSIVE B64Encode(_)
B64Encode(bytes) ==
    LET n == Len(bytes)
    IN  IF n = 0 THEN <<>>
        ELSE IF n = 1
        THEN <<bytes[1] \div 4, (bytes[1] % 4) * 16, B64Pad, B64Pad>>
        ELSE IF n = 2
        THEN <<bytes[1] \div 4, ((bytes[1] % 4) * 16) + (bytes[2] \div 16),
               (bytes[2] % 16) * 4, B64Pad>>
        ELSE <<bytes[1] \div 4, ((bytes[1] % 4) * 16) + (bytes[2] \div 16),
               ((bytes[2] % 16) * 4) + (bytes[3] \div 64), bytes[3] % 64>>
             \o B64Encode(SubSeq(bytes, 4, n))

\* binascii.a2b_base64, not strict, from the character at the head of text:
\* quad is the position in the group of four, left the bits kept from the
\* last character, pads the run of '=' just read, out the bytes so far.
\* A '=' that completes a group ends the decoding; any other '=' and any
\* character outside the alphabet is skipped; a text that ends inside a
\* group raises binascii.Error.
RECURSIVE a2b_base64(_, _, _, _, _)
a2b_base64(text, quad, left, pads, out) ==
    IF text = <<>>
    THEN [ok |-> quad = 0, bytes |-> IF quad = 0 THEN out ELSE <<>>]
    ELSE LET c == Head(text)
             rest == Tail(text)
         IN  IF c = B64Pad
             THEN IF quad >= 2 /\ quad + pads + 1 >= 4
                  THEN [ok |-> TRUE, bytes |-> out]
                  ELSE a2b_base64(rest, quad, left, pads + 1, out)
             ELSE IF c > B64Pad
             THEN a2b_base64(rest, quad, left, pads, out)
             ELSE IF quad = 0
             THEN a2b_base64(rest, 1, c, 0, out)
             ELSE IF quad = 1
             THEN a2b_base64(rest, 2, c % 16, 0,
                             Append(out, (left * 4) + (c \div 16)))
             ELSE IF quad = 2
             THEN a2b_base64(rest, 3, c % 4, 0,
                             Append(out, (left * 16) + (c \div 4)))
             ELSE a2b_base64(rest, 0, 0, 0, Append(out, (left * 64) + c))

\* base64.b64decode: [ok, bytes]
B64Decode(text) == a2b_base64(text, 0, 0, 0, <<>>)

\* ----------------------------------------------------------------- AES-GCM
\* The cipher of Crypto.Cipher.AES / AESGCM, by its contract: a keystream
\* fixed by key and nonce is XORed onto the data, and the tag is a function
\* of key, nonce and ciphertext (neither file passes associated data) that
\* is taken to be collision-free: two different (key, nonce, ciphertext)
\* never have the same tag.

\* i-th keystream byte
GcmKeystream(key, nonce, i) ==
    ((key[((i - 1) % Len(key)) + 1] * 31) + (nonce[1] * 17) + (i * 13)) % 256

\* encrypt and decrypt are the same XOR
GcmCrypt(key, nonce, data) ==
    [i \in 1 .. Len(data) |-> BitXor(data[i], GcmKeystream(key, nonce, i))]

\* longest ciphertext of a plaintext of MaxLen characters
MaxCipherLen ==
    MaxLen * Len(Utf8Char(CHOOSE c \in CodePoints : \A d \in CodePoints : d <= c))

\* the tag: fixed length for ciphertexts up to MaxCipherLen
GcmTag(key, nonce, ct) ==
    <<Len(ct)>> \o ct
        \o [i \in 1 .. (IF Len(ct) < MaxCipherLen
                        THEN MaxCipherLen - Len(ct) ELSE 0) |-> 0]
        \o key \o nonce

\* what a failed decryption yields
DecryptFailed == [ok |-> FALSE, plaintext |-> <<>>]

\* ------------------------------------------------- src/send_email.py codec
\* encrypt_message; nonce is the one AES.new draws
encrypt_message(plaintext, key_b64, nonce) ==
    LET key == B64Decode(key_b64).bytes
        ciphertext == GcmCrypt(key, nonce, Utf8Encode(plaintext))
        tag == GcmTag(key, nonce, ciphertext)
    IN  [ciphertext |-> B64Encode(ciphertext), nonce |-> B64Encode(nonce),
         tag |-> B64Encode(tag)]

\* variant: cipher.decrypt instead of decrypt_and_verify
decrypt_message_unverified(ciphertext_b64, nonce_b64, tag_b64, key_b64) ==
    LET key == B64Decode(key_b64)
        ciphertext == B64Decode(ciphertext_b64)
        nonce == B64Decode(nonce_b64)
        tag == B64Decode(tag_b64)
    IN  IF ~ (key.ok /\ ciphertext.ok /\ nonce.ok /\ tag.ok)
           \/ key.bytes = <<>> \/ nonce.bytes = <<>>
        THEN DecryptFailed
        ELSE LET text == Utf8Decode(GcmCrypt(key.bytes, nonce.bytes,
                                             ciphertext.bytes))
             IN  IF text.ok
                 THEN [ok |-> TRUE, plaintext |-> <<text.str>>]
                 ELSE DecryptFailed

\* variant: the nonce of the envelope is not handed to AES.new
decrypt_message_own_nonce(ciphertext_b64, nonce_b64, tag_b64, key_b64) ==
    LET key == B64Decode(key_b64)
        ciphertext == B64Decode(ciphertext_b64)
        tag == B64Decode(tag_b64)
        nonce == CHOOSE n \in NonceDraws : B64Encode(n) # nonce_b64
    IN  IF ~ (key.ok /\ ciphertext.ok /\ tag.ok) \/ key.bytes = <<>>
        THEN DecryptFailed
        ELSE IF tag.bytes # GcmTag(key.bytes, nonce, ciphertext.bytes)
        THEN DecryptFailed
        ELSE LET text == Utf8Decode(GcmCrypt(key.bytes, nonce,
                                             ciphertext.bytes))
             IN  IF text.ok
                 THEN [ok |-> TRUE, plaintext |-> <<text.str>>]
                 ELSE DecryptFailed

\* src/recv_email.py decrypt_message: every exception becomes
\* 'Decryption failed'; plaintext is <<text>> on success
decrypt_message(ciphertext_b64, nonce_b64, tag_b64, key_b64) ==
    LET key == B64Decode(key_b64)
        ciphertext == B64Decode(ciphertext_b64)
        nonce == B64Decode(nonce_b64)
        tag == B64Decode(tag_b64)
    IN  IF ~ (key.ok /\ ciphertext.ok /\ nonce.ok /\ tag.ok)
           \/ key.bytes = <<>> \/ nonce.bytes = <<>>
        THEN DecryptFailed
        ELSE IF tag.bytes # GcmTag(key.bytes, nonce.bytes, ciphertext.bytes)
        THEN DecryptFailed
        ELSE LET text == Utf8Decode(GcmCrypt(key.bytes, nonce.bytes,
                                             ciphertext.bytes))
             IN  IF text.ok
                 THEN [ok |-> TRUE, plaintext |-> <<text.str>>]
                 ELSE DecryptFailed

\* ------------------------------------------------- src/email_client codec
\* encrypt_message of email_client: AESGCM.encrypt returns the ciphertext
\* with the tag appended; nonce is secrets.token_bytes(12)
client_encrypt_message(plaintext, key_b64, nonce) ==
    LET key == B64Decode(key_b64).bytes
        ciphertext == GcmCrypt(key, nonce, Utf8Encode(plaintext))
    IN  [ciphertext |-> B64Encode(ciphertext \o GcmTag(key, nonce, ciphertext)),
         nonce |-> B64Encode(nonce)]

\* decrypt_message of email_client: AESGCM.decrypt splits off the trailing
\* tag and raises InvalidTag when it does not verify
client_decrypt_message(ciphertext_b64, nonce_b64, key_b64) ==
    LET key == B64Decode(key_b64)
        data == B64Decode(ciphertext_b64)
        nonce == B64Decode(nonce_b64)
    IN  IF ~ (key.ok /\ data.ok /\ nonce.ok)
           \/ key.bytes = <<>> \/ nonce.bytes = <<>>
        THEN DecryptFailed
        ELSE LET taglen == Len(GcmTag(key.bytes, nonce.bytes, <<>>))
                 n == Len(data.bytes) - taglen
             IN  IF n < 0 THEN DecryptFailed
                 ELSE LET ciphertext == SubSeq(data.bytes, 1, n)
                          tag == SubSeq(data.bytes, n + 1, Len(data.bytes))
                      IN  IF tag # GcmTag(key.bytes, nonce.bytes, ciphertext)
                          THEN DecryptFailed
                          ELSE LET text == Utf8Decode(GcmCrypt(key.bytes,
                                               nonce.bytes, ciphertext))
                               IN  IF text.ok
                                   THEN [ok |-> TRUE, plaintext |-> <<text.str>>]
                                   ELSE DecryptFailed

\* -------------------------------------------------------------- the letter
\* A message body is a sequence of lines.  A line is plain text (with the
\* value interpolated into it, if any) or one line of json.dumps(indent=2);
\* cr tells whether the line ends in "\r\n" rather than "\n".
TextLine(text, value) ==
    [kind |-> "text", text |-> text, name |-> "", value |-> value,
     comma |-> FALSE, cr |-> FALSE]

MemberLine(name, value, comma) ==
    [kind |-> "member", text |-> "", name |-> name, value |-> value,
     comma |-> comma, cr |-> FALSE]

StartMarker == "--- ENCRYPTED PAYLOAD ---"
EndMarker == "--- END ENCRYPTED PAYLOAD ---"

\* keys of encrypted_payload, in insertion order
PayloadFields ==
    <<"version", "algorithm", "key_id", "ciphertext", "nonce", "tag",
      "timestamp">>

\* the dict encrypted_payload of send_encrypted_email
EncryptedPayload(key_id, encrypted, timestamp) ==
    [version |-> "1.0", algorithm |-> "AES-256-GCM", key_id |-> key_id,
     ciphertext |-> encrypted.ciphertext, nonce |-> encrypted.nonce,
     tag |-> encrypted.tag, timestamp |-> timestamp]

\* json.dumps(payload, indent=2): "{", one line per key, "}"
JsonDumps(payload) ==
    <<TextLine("{", <<>>)>>
        \o [i \in 1 .. Len(PayloadFields) |->
               MemberLine(PayloadFields[i], payload[PayloadFields[i]],
                          i < Len(PayloadFields))]
        \o <<TextLine("}", <<>>)>>

\* json.loads of the lines (line ends are white space between tokens):
\* [ok, payload]; of two members of one name the later wins
JsonLoads(lines) ==
    LET n == Len(lines)
        wellFormed ==
            /\ n >= 2
            /\ lines[1].kind = "text" /\ lines[1].text = "{"
            /\ lines[n].kind = "text" /\ lines[n].text = "}"
            /\ \A i \in 2 .. n - 1 :
                  /\ lines[i].kind = "member"
                  /\ lines[i].comma = (i < n - 1)
    IN  IF ~ wellFormed THEN [ok |-> FALSE, payload |-> <<>>]
        ELSE [ok |-> TRUE,
              payload |->
                 [name \in {lines[i].name : i \in 2 .. n - 1} |->
                     lines[CHOOSE i \in 2 .. n - 1 :
                              /\ lines[i].name = name
                              /\ \A j \in 2 .. n - 1 :
                                    lines[j].name = name => j <= i].value]]

\* the headers send_encrypted_email sets
QuMailHeaders(key_id, timestamp) ==
    [encrypted |-> "AES-GCM", key_id |-> key_id, version |-> "1.0",
     timestamp |-> timestamp]

\* email_body of send_encrypted_email
EmailBody(key_id, payload, timestamp) ==
    << TextLine("This message was encrypted using QuMail quantum-secure encryption.", <<>>),
       TextLine("", <<>>),
       TextLine("To decrypt this message, you need QuMail client software and access to the QKD key.", <<>>),
       TextLine("", <<>>),
       TextLine("Key ID: ", <<key_id>>),
       TextLine("Algorithm: AES-256-GCM", <<>>),
       TextLine("Encrypted at: ", <<timestamp.sec>>),
       TextLine("", <<>>),
       TextLine(StartMarker, <<>>) >>
    \o JsonDumps(payload)
    \o << TextLine(EndMarker, <<>>),
          TextLine("", <<>>),
          TextLine("QuMail - Quantum-Secure Email Communication", <<>>),
          TextLine("https://github.com/qumail/qumail", <<>>) >>

\* the body as delivered: SMTP and IMAP may turn every line end into "\r\n"
Delivered(body, eol) ==
    [i \in 1 .. Len(body) |-> [body[i] EXCEPT !.cr = (eol = "CRLF")]]

\* variant: the markers of src/email_client are looked for
extract_encrypted_payload_client_markers(email_body) ==
    LET n == Len(email_body)
        IsText(i, t) == email_body[i].kind = "text" /\ email_body[i].text = t
        matches == {p \in (1 .. n) \X (1 .. n) :
                       /\ IsText(p[1], "--- ENCRYPTED MESSAGE DATA ---")
                       /\ p[2] >= p[1] + 2
                       /\ IsText(p[2], "--- END ENCRYPTED DATA ---")
                       /\ \A j \in (p[1] + 2) .. (p[2] - 1) :
                             ~ IsText(j, "--- END ENCRYPTED DATA ---")}
    IN  IF matches = {} THEN <<>>
        ELSE LET m == CHOOSE p \in matches : \A q \in matches : p[1] <= q[1]
                 loaded == JsonLoads(SubSeq(email_body, m[1] + 1, m[2] - 1))
             IN  IF loaded.ok THEN <<loaded.payload>> ELSE <<>>

\* extract_encrypted_payload: the leftmost match of
\*   --- ENCRYPTED PAYLOAD ---\s*\n(.*?)\n--- END ENCRYPTED PAYLOAD ---
\* (\s* takes the "\r" of the marker line; the group is at least one line
\* and ends before the first end marker that starts a line; strip() drops
\* the "\r" left at its end), then json.loads.  <<>> for None, else <<payload>>
extract_encrypted_payload(email_body) ==
    LET n == Len(email_body)
        IsText(i, t) == email_body[i].kind = "text" /\ email_body[i].text = t
        matches == {p \in (1 .. n) \X (1 .. n) :
                       /\ IsText(p[1], StartMarker)
                       /\ p[2] >= p[1] + 2
                       /\ IsText(p[2], EndMarker)
                       /\ \A j \in (p[1] + 2) .. (p[2] - 1) :
                             ~ IsText(j, EndMarker)}
    IN  IF matches = {} THEN <<>>
        ELSE LET m == CHOOSE p \in matches : \A q \in matches : p[1] <= q[1]
                 loaded == JsonLoads(SubSeq(email_body, m[1] + 1, m[2] - 1))
             IN  IF loaded.ok THEN <<loaded.payload>> ELSE <<>>

\* is_qumail of fetch_emails
IsQuMail(headers) == headers.encrypted = "AES-GCM"

\* get_qkd_key for the answer of GET /get_key/<key_id>: the key of a 200
\* answer, <<>> when it raises (404, 410, another status, no connection: 0)
get_qkd_key(status_code, key_b64) ==
    IF status_code = 200 THEN <<key_b64>> ELSE <<>>

\* variant: the email is marked as decrypted before the key is fetched
decrypt_qumail_email_marked_first(headers, email_body, key) ==
    LET none == [is_qumail |-> IsQuMail(headers), payload |-> <<>>,
                 decrypted |-> FALSE, decrypted_body |-> <<>>,
                 decrypt_error |-> FALSE]
        extracted == extract_encrypted_payload(email_body)
    IN  IF ~ IsQuMail(headers) THEN none
        ELSE IF extracted = <<>> THEN [none EXCEPT !.decrypt_error = TRUE]
        ELSE IF key = <<>>
        THEN [none EXCEPT !.payload = extracted, !.decrypted = TRUE,
                          !.decrypt_error = TRUE]
        ELSE LET payload == extracted[1]
             IN  IF ~ ({"ciphertext", "nonce", "tag"} \subseteq DOMAIN payload)
                 THEN [none EXCEPT !.payload = extracted, !.decrypted = TRUE,
                                   !.decrypt_error = TRUE]
                 ELSE LET out == decrypt_message(payload["ciphertext"],
                                     payload["nonce"], payload["tag"], key[1])
                      IN  IF out.ok
                          THEN [none EXCEPT !.payload = extracted,
                                            !.decrypted = TRUE,
                                            !.decrypted_body = out.plaintext]
                          ELSE [none EXCEPT !.payload = extracted,
                                            !.decrypted = TRUE,
                                            !.decrypt_error = TRUE]

\* decrypt_qumail_email, given what get_qkd_key returned: <<key_b64>>, or
\* <<>> when it raised
decrypt_qumail_email(headers, email_body, key) ==
    LET none == [is_qumail |-> IsQuMail(headers), payload |-> <<>>,
                 decrypted |-> FALSE, decrypted_body |-> <<>>,
                 decrypt_error |-> FALSE]
        extracted == extract_encrypted_payload(email_body)
    IN  IF ~ IsQuMail(headers) THEN none
        ELSE IF extracted = <<>> THEN [none EXCEPT !.decrypt_error = TRUE]
        ELSE IF key = <<>>
        THEN [none EXCEPT !.payload = extracted, !.decrypt_error = TRUE]
        ELSE LET payload == extracted[1]
             IN  IF ~ ({"ciphertext", "nonce", "tag"} \subseteq DOMAIN payload)
                 THEN [none EXCEPT !.payload = extracted,
                                   !.decrypt_error = TRUE]
                 ELSE LET out == decrypt_message(payload["ciphertext"],
                                     payload["nonce"], payload["tag"], key[1])
                      IN  IF out.ok
                          THEN [none EXCEPT !.payload = extracted,
                                            !.decrypted = TRUE,
                                            !.decrypted_body = out.plaintext]
                          ELSE [none EXCEPT !.payload = extracted,
                                            !.decrypt_error = TRUE]

\* ------------------------------------------------------------------ routes
NoResponse ==
    [op |-> "none", code |-> 0, key_id |-> <<>>,
     mgr |-> <<>>, body |-> <<>>, keys |-> <<>>, fault |-> "none",
     request |-> <<>>]

\* no letter has been written yet
NoMail ==
    [stage |-> "none", variant |-> "none", plaintext |-> <<>>,
     key_b64 |-> <<>>, rkey_b64 |-> <<>>, headers |-> <<>>, sent |-> <<>>,
     body |-> <<>>, envelope |-> <<>>, tampered |-> "none", key_code |-> 200,
     result |-> <<>>]

\* the threads of the server that handle requests at the same time
Callers == {"t1", "t2"}

\* a thread that is not inside get_key
Idle == [pc |-> "idle", key_id |-> <<>>, key_data |-> <<>>]

\* every key_id generate_key_id may return
KeyIds == {generate_key_id(i) : i \in KeyIdDraws}

Init ==
    /\ mail = NoMail
    /\ user_sessions = [s \in {} |-> <<>>]
    /\ inflight = [c \in Callers |-> Idle]
    /\ found_calls = [k \in KeyIds |-> 0]
    /\ qkd_keys = <<>>
    /\ key_usage_log = <<>>
    /\ now = StartTime
    /\ response = NoResponse
    /\ issued = {}
    /\ reportedExpired = {}

\* the clock advances between requests
Tick ==
    /\ now < MaxTime
    /\ now' = now + 1
    /\ response' = NoResponse
    /\ UNCHANGED <<qkd_keys, key_usage_log, issued, reportedExpired, mail,
                 user_sessions, inflight, found_calls>>

\* the body of the 200 answer of /request_key
RequestKeyBody(row) ==
    [status |-> "success", key_id |-> row.key_id, key_b64 |-> row.key_b64,
     expires_at |-> row.expires_at, algorithm |-> "AES-256-GCM"]

\* the dict QKDKeyManager.request_key returns
RequestKeyData(row) ==
    [key_id |-> row.key_id, key_b64 |-> row.key_b64,
     expires_at |-> row.expires_at, algorithm |-> "AES-256-GCM",
     status |-> "active"]

\* 'if not sender or not recipient' of the /request_key route
MissingParty(sender, recipient) == sender = "" \/ recipient = ""

\* POST /request_key
RequestKey(sender, recipient, larg, idDraw, keyDraw, d) ==
    LET lifetime == LifetimeOf(larg)
        key_id == generate_key_id(idDraw)
        row == NewKeyRow(key_id, generate_quantum_key(keyDraw), sender,
                         recipient, CreatedAt(now), ExpiresAt(now + d, lifetime))
        ins == InsertKey(qkd_keys, row)
    IN  IF MissingParty(sender, recipient)
        THEN /\ response' = [NoResponse EXCEPT !.op = "request_key",
                                 !.code = 400]
             /\ UNCHANGED <<qkd_keys, key_usage_log, now, issued, reportedExpired,
                            mail, user_sessions, inflight, found_calls>>
        ELSE /\ now + d <= MaxTime
             /\ now' = now + d
             /\ IF ins.ok
                THEN /\ Len(qkd_keys) < MaxKeys
                     /\ Len(key_usage_log) < MaxLog
                     /\ qkd_keys' = ins.table
                     /\ key_usage_log' = LogGenerated(key_usage_log, key_id,
                                                      row.created_at)
                     /\ issued' = issued \cup
                            {[key_id |-> key_id, t0 |-> now, lifetime |-> lifetime]}
                     /\ response' = [NoResponse EXCEPT !.op = "request_key",
                            !.code = 200,
                            !.key_id = <<key_id>>,
                            !.mgr = <<RequestKeyData(row)>>,
                            !.body = <<RequestKeyBody(row)>>]
                ELSE /\ response' = [NoResponse EXCEPT !.op = "request_key",
                            !.code = 500,
                            !.key_id = <<key_id>>]
                     /\ UNCHANGED <<qkd_keys, key_usage_log, issued>>
             /\ UNCHANGED <<reportedExpired, mail, user_sessions, inflight,
                            found_calls>>

\* variant: the test for 'expired' is missing
GetKeyCodeNoExpired(mgr) == IF mgr = <<>> THEN 404 ELSE 200

\* variant: the 'if not key_data' test is missing
GetKeyCodeNoNotFound(mgr) ==
    IF mgr # <<>> /\ mgr[1].status = "expired" THEN 410 ELSE 200

\* the requests tried: every combination of parties, lifetime, draws and
\* clock drift; a request that lacks a party is answered before any of the
\* others is used, so it is tried with one lifetime, draw and drift only
RequestInputs ==
    {q \in Senders \X Recipients \X LifetimeArgs \X KeyIdDraws
            \X KeyByteDraws \X (0 .. MaxDrift) :
        MissingParty(q[1], q[2]) =>
           /\ q[3] = <<>>
           /\ q[4] = (CHOOSE i \in KeyIdDraws : TRUE)
           /\ q[5] = (CHOOSE k \in KeyByteDraws : TRUE)
           /\ q[6] = 0}

\* status code of the /get_key route for what the manager returned
GetKeyCode(mgr) ==
    IF mgr = <<>> THEN 404
    ELSE IF mgr[1].status = "expired" THEN 410 ELSE 200

\* GET /get_key/<key_id>; the clock reads of lines 180 and 195 fall in the
\* same tick
GetKey(key_id) ==
    LET rows == SelectKey(qkd_keys, key_id)
    IN  IF rows = <<>>
        THEN /\ response' = [NoResponse EXCEPT !.op = "get_key",
                                 !.code = GetKeyCode(<<>>),
                                 !.key_id = <<key_id>>]
             /\ UNCHANGED <<qkd_keys, key_usage_log, now, issued, reportedExpired,
                            mail, user_sessions, inflight, found_calls>>
        ELSE LET row == rows[1]
                 expired == IsExpired(now, row.expires_at)
                 key_data == KeyData(row, expired)
                 code == GetKeyCode(<<key_data>>)
             IN  /\ Len(key_usage_log) < MaxLog
                 /\ qkd_keys' = IF expired THEN UpdateExpired(qkd_keys, key_id)
                                ELSE qkd_keys
                 /\ key_usage_log' = LogAccessed(key_usage_log, key_id,
                                                 IsoFormat(now))
                 /\ reportedExpired' =
                        IF key_data.status = "expired"
                        THEN reportedExpired \cup {key_id} ELSE reportedExpired
                 /\ response' = [NoResponse EXCEPT !.op = "get_key",
                        !.code = code, !.key_id = <<key_id>>,
                        !.mgr = <<key_data>>,
                        !.body = IF code = 200 THEN <<key_data>> ELSE <<>>]
                 /\ found_calls' = [found_calls EXCEPT ![key_id] = @ + 1]
                 /\ UNCHANGED <<now, issued, mail, user_sessions, inflight>>

\* a request to consume a key: QKDKeyManager has the methods request_key and
\* get_key only and the application registers no rule for such a request,
\* so it is answered 404 by the framework and no table is touched
ConsumeKey(key_id) ==
    /\ response' = [NoResponse EXCEPT !.op = "consume_key", !.code = 404,
                         !.key_id = <<key_id>>]
    /\ UNCHANGED <<qkd_keys, key_usage_log, now, issued, reportedExpired,
                            mail, user_sessions, inflight, found_calls>>

\* variant: the listing evaluates expiry as get_key does
ListEntryLazyExpiry(row) ==
    [key_id |-> row.key_id, sender |-> row.sender, recipient |-> row.recipient,
     created_at |-> row.created_at, expires_at |-> row.expires_at,
     status |-> IF IsExpired(now, row.expires_at) THEN "expired"
                ELSE row.status,
     algorithm |-> row.algorithm]

\* variant: the SELECT of /keys also reads key_b64
ListEntryWithKey(row) ==
    [key_id |-> row.key_id, key_b64 |-> row.key_b64, sender |-> row.sender,
     recipient |-> row.recipient, created_at |-> row.created_at,
     expires_at |-> row.expires_at, status |-> row.status,
     algorithm |-> row.algorithm]

\* one element of the 'keys' array of GET /keys
ListEntry(row) ==
    [key_id |-> row.key_id, sender |-> row.sender, recipient |-> row.recipient,
     created_at |-> row.created_at, expires_at |-> row.expires_at,
     status |-> row.status, algorithm |-> row.algorithm]

\* ORDER BY created_at DESC LIMIT 50: the orders SQLite may return (rows with
\* equal created_at text come in any order)
ListOrders(table) ==
    LET n == Len(table)
        m == IF n < ListLimit THEN n ELSE ListLimit
    IN  { [i \in 1 .. m |-> ListEntry(table[pick[i]])] :
            pick \in { p \in [1 .. m -> 1 .. n] :
                /\ \A i, j \in 1 .. m : i # j => p[i] # p[j]
                /\ \A i, j \in 1 .. m : i < j =>
                      ~ IsoTextLess(table[p[i]].created_at,
                                    table[p[j]].created_at)
                /\ \A i \in 1 .. m : \A k \in 1 .. n :
                      (\A j \in 1 .. m : p[j] # k) =>
                          ~ IsoTextLess(table[p[i]].created_at,
                                        table[k].created_at) } }

\* GET /keys
ListKeys ==
    /\ \E out \in ListOrders(qkd_keys) :
          response' = [NoResponse EXCEPT !.op = "list_keys", !.code = 200,
                           !.keys = out]
    /\ UNCHANGED <<qkd_keys, key_usage_log, now, issued, reportedExpired,
                            mail, user_sessions, inflight, found_calls>>

Next ==
    \/ Tick
    \/ \E q \in RequestInputs : RequestKey(q[1], q[2], q[3], q[4], q[5], q[6])
    \/ \E i \in KeyIdDraws : GetKey(generate_key_id(i))
    \/ \E i \in KeyIdDraws : ConsumeKey(generate_key_id(i))
    \/ ListKeys

Spec == Init /\ [][Next]_vars

\* ------------------------------------------------------------ mail clients
KeyManagerVars ==
    <<qkd_keys, key_usage_log, now, response, issued, reportedExpired,
      user_sessions, inflight, found_calls>>

\* every text of at most MaxLen characters
Plaintexts ==
    UNION {[1 .. n -> CodePoints] : n \in 0 .. MaxLen}

\* send_encrypted_email of src/send_email.py with the (key_id, key_b64) that
\* request_qkd_key returned, up to the delivery of the message
SendEncryptedEmail(plaintext, idDraw, keyDraw, nonce, eol) ==
    LET key_id == generate_key_id(idDraw)
        key_b64 == B64Encode(keyDraw)
        encrypted == encrypt_message(plaintext, key_b64, nonce)
        timestamp == IsoFormat(now)
        payload == EncryptedPayload(key_id, encrypted, timestamp)
    IN  /\ mail.stage = "none"
        /\ mail' = [NoMail EXCEPT !.stage = "sent", !.variant = "smtp",
                       !.plaintext = plaintext, !.key_b64 = key_b64,
                       !.rkey_b64 = key_b64,
                       !.headers = <<QuMailHeaders(key_id, timestamp)>>,
                       !.sent = <<payload>>,
                       !.body = Delivered(EmailBody(key_id, payload, timestamp),
                                          eol)]
        /\ UNCHANGED KeyManagerVars

\* encrypt_message of src/email_client/send_email.py
ClientEncrypt(plaintext, keyDraw, nonce) ==
    LET key_b64 == B64Encode(keyDraw)
    IN  /\ mail.stage = "none"
        /\ mail' = [NoMail EXCEPT !.stage = "sent", !.variant = "client",
                       !.plaintext = plaintext, !.key_b64 = key_b64,
                       !.rkey_b64 = key_b64,
                       !.envelope =
                           <<client_encrypt_message(plaintext, key_b64, nonce)>>]
        /\ UNCHANGED KeyManagerVars

\* the line of the member name carries value
SetMember(body, name, value) ==
    [i \in 1 .. Len(body) |->
        IF body[i].kind = "member" /\ body[i].name = name
        THEN [body[i] EXCEPT !.value = value] ELSE body[i]]

\* bytes with bit number bit of byte i flipped
FlipBit(bytes, i, bit) ==
    [bytes EXCEPT ![i] = BitXor(@, 2 ^ bit)]

\* the message is altered on its way: one bit of the ciphertext or of the
\* tag is flipped
AlterBytes(field, i, bit) ==
    /\ mail.stage = "sent"
    /\ mail.tampered = "none"
    /\ IF mail.variant = "smtp"
       THEN LET bytes == B64Decode(mail.sent[1][field]).bytes
            IN  /\ i <= Len(bytes)
                /\ mail' = [mail EXCEPT !.tampered = field,
                               !.body = SetMember(mail.body, field,
                                           B64Encode(FlipBit(bytes, i, bit)))]
       ELSE LET bytes == B64Decode(mail.envelope[1].ciphertext).bytes
                taglen == Len(bytes) - Len(Utf8Encode(mail.plaintext))
                k == IF field = "tag" THEN Len(bytes) - taglen + i ELSE i
            IN  /\ i <= (IF field = "tag" THEN taglen ELSE Len(bytes) - taglen)
                /\ mail' = [mail EXCEPT !.tampered = field,
                               !.envelope = <<[mail.envelope[1] EXCEPT
                                   !.ciphertext =
                                       B64Encode(FlipBit(bytes, k, bit))]>>]
    /\ UNCHANGED KeyManagerVars

\* the receiver obtains another key than the sender used
OtherKey(keyDraw) ==
    /\ mail.stage = "sent"
    /\ mail.tampered = "none"
    /\ B64Encode(keyDraw) # mail.key_b64
    /\ mail' = [mail EXCEPT !.tampered = "key", !.rkey_b64 = B64Encode(keyDraw)]
    /\ UNCHANGED KeyManagerVars

\* the version field of the envelope is changed on the way
AlterVersion ==
    /\ mail.stage = "sent"
    /\ mail.variant = "smtp"
    /\ mail.tampered = "none"
    /\ mail' = [mail EXCEPT !.tampered = "version",
                   !.body = SetMember(mail.body, "version", "2.0")]
    /\ UNCHANGED KeyManagerVars

\* statuses of GET /get_key/<key_id> other than 200; 0: no connection
KeyManagerRefusals == {404, 410, 500, 0}

\* the Key Manager does not hand out the key of the message
KeyRefused(status_code) ==
    /\ mail.stage = "sent"
    /\ mail.variant = "smtp"
    /\ mail.tampered = "none"
    /\ mail' = [mail EXCEPT !.tampered = "no_key", !.key_code = status_code]
    /\ UNCHANGED KeyManagerVars

\* the message arrives cut off before the end marker
CutBody ==
    /\ mail.stage = "sent"
    /\ mail.variant = "smtp"
    /\ mail.tampered = "none"
    /\ mail' = [mail EXCEPT !.tampered = "cut",
                   !.body = SelectSeq(mail.body, LAMBDA l :
                                ~ (l.kind = "text" /\ l.text = EndMarker))]
    /\ UNCHANGED KeyManagerVars

\* fetch_emails and decrypt_qumail_email of src/recv_email.py
DecryptQuMailEmail ==
    /\ mail.stage = "sent"
    /\ mail.variant = "smtp"
    /\ mail' = [mail EXCEPT !.stage = "received",
                   !.result = <<decrypt_qumail_email(mail.headers[1], mail.body,
                                  get_qkd_key(mail.key_code, mail.rkey_b64))>>]
    /\ UNCHANGED KeyManagerVars

\* decrypt_message of src/email_client/recv_email.py
ClientDecrypt ==
    /\ mail.stage = "sent"
    /\ mail.variant = "client"
    /\ LET out == client_decrypt_message(mail.envelope[1].ciphertext,
                      mail.envelope[1].nonce, mail.rkey_b64)
       IN  mail' = [mail EXCEPT !.stage = "received",
                       !.result = <<[is_qumail |-> TRUE, payload |-> <<>>,
                                     decrypted |-> out.ok,
                                     decrypted_body |-> out.plaintext,
                                     decrypt_error |-> ~ out.ok]>>]
    /\ UNCHANGED KeyManagerVars

\* longest byte string a bit is flipped in
MaxAlterLen == Len(GcmTag(<<0, 0>>, <<0>>, <<>>))

CodecNext ==
    \/ \E m \in Plaintexts, i \in KeyIdDraws, k \in KeyDraws, n \in NonceDraws,
          e \in LineEnds : SendEncryptedEmail(m, i, k, n, e)
    \/ \E m \in Plaintexts, k \in KeyDraws, n \in NonceDraws :
          ClientEncrypt(m, k, n)
    \/ \E f \in {"ciphertext", "tag"}, i \in 1 .. MaxAlterLen, b \in 0 .. 7 :
          AlterBytes(f, i, b)
    \/ \E k \in KeyDraws : OtherKey(k)
    \/ AlterVersion
    \/ \E c \in KeyManagerRefusals : KeyRefused(c)
    \/ CutBody
    \/ DecryptQuMailEmail
    \/ ClientDecrypt

CodecSpec == Init /\ [][CodecNext]_vars

\* ------------------------------------------------- get_key, step by step
\* Flask serves requests on threads, so calls of QKDKeyManager.get_key
\* overlap.  sqlite3 runs the SELECT on its own and opens a transaction at
\* the UPDATE and at the INSERT, each ended by its conn.commit(): a call is
\* the three steps below, and steps of other calls may come in between.
NonMailVars == <<mail, user_sessions>>

\* the calls that are inside get_key
InFlight == {c \in Callers : inflight[c].pc # "idle"}

\* the SELECT and 'if not row: return None'
GetKeySelect(c, key_id) ==
    LET rows == SelectKey(qkd_keys, key_id)
    IN  /\ inflight[c].pc = "idle"
        /\ IF rows = <<>>
           THEN /\ response' = [NoResponse EXCEPT !.op = "get_key",
                                    !.code = GetKeyCode(<<>>),
                                    !.key_id = <<key_id>>]
                /\ UNCHANGED <<inflight, found_calls>>
           ELSE /\ Len(key_usage_log) + Cardinality(InFlight) < MaxLog
                /\ inflight' = [inflight EXCEPT ![c] =
                       [pc |-> "selected", key_id |-> <<key_id>>,
                        key_data |-> <<KeyData(rows[1], FALSE)>>]]
                /\ found_calls' = [found_calls EXCEPT ![key_id] = @ + 1]
                /\ UNCHANGED response
        /\ UNCHANGED <<qkd_keys, key_usage_log, now, issued, reportedExpired>>
        /\ UNCHANGED NonMailVars

\* the expiry test, with the UPDATE and its commit when it is true
GetKeyCheckExpiry(c) ==
    /\ inflight[c].pc = "selected"
    /\ LET key_data == inflight[c].key_data[1]
           expired == IsExpired(now, key_data.expires_at)
       IN  /\ qkd_keys' = IF expired
                          THEN UpdateExpired(qkd_keys, key_data.key_id)
                          ELSE qkd_keys
           /\ inflight' = [inflight EXCEPT ![c] =
                  [@ EXCEPT !.pc = "checked",
                            !.key_data = <<KeyData(key_data, expired)>>]]
    /\ UNCHANGED <<key_usage_log, now, response, issued, reportedExpired,
                   found_calls>>
    /\ UNCHANGED NonMailVars

\* variant: the record the call holds is saved with the log row
GetKeyLogAccessSaveRecord(c) ==
    /\ inflight[c].pc = "checked"
    /\ LET key_data == inflight[c].key_data[1]
           code == GetKeyCode(<<key_data>>)
       IN  /\ qkd_keys' = [i \in 1 .. Len(qkd_keys) |->
                  IF qkd_keys[i].key_id = key_data.key_id
                  THEN [qkd_keys[i] EXCEPT !.status = key_data.status]
                  ELSE qkd_keys[i]]
           /\ key_usage_log' = LogAccessed(key_usage_log, key_data.key_id,
                                           IsoFormat(now))
           /\ reportedExpired' =
                  IF key_data.status = "expired"
                  THEN reportedExpired \cup {key_data.key_id}
                  ELSE reportedExpired
           /\ response' = [NoResponse EXCEPT !.op = "get_key",
                  !.code = code, !.key_id = <<key_data.key_id>>,
                  !.mgr = <<key_data>>,
                  !.body = IF code = 200 THEN <<key_data>> ELSE <<>>]
    /\ inflight' = [inflight EXCEPT ![c] = Idle]
    /\ UNCHANGED <<now, issued, found_calls>>
    /\ UNCHANGED NonMailVars

\* the INSERT of the KEY_ACCESSED row with its commit, and the answer of
\* the route
GetKeyLogAccess(c) ==
    /\ inflight[c].pc = "checked"
    /\ LET key_data == inflight[c].key_data[1]
           code == GetKeyCode(<<key_data>>)
       IN  /\ key_usage_log' = LogAccessed(key_usage_log, key_data.key_id,
                                           IsoFormat(now))
           /\ reportedExpired' =
                  IF key_data.status = "expired"
                  THEN reportedExpired \cup {key_data.key_id}
                  ELSE reportedExpired
           /\ response' = [NoResponse EXCEPT !.op = "get_key",
                  !.code = code, !.key_id = <<key_data.key_id>>,
                  !.mgr = <<key_data>>,
                  !.body = IF code = 200 THEN <<key_data>> ELSE <<>>]
    /\ inflight' = [inflight EXCEPT ![c] = Idle]
    /\ UNCHANGED <<qkd_keys, now, issued, found_calls>>
    /\ UNCHANGED NonMailVars

\* the requests that make the keys the calls are about
ConcurrentRequestInputs ==
    {q \in RequestInputs :
        ~ MissingParty(q[1], q[2]) /\ q[3] # <<>> /\ q[6] = 0}

ConcurrentNext ==
    \/ Tick
    \/ \E q \in ConcurrentRequestInputs :
          RequestKey(q[1], q[2], q[3], q[4], q[5], q[6])
    \/ \E c \in Callers, i \in KeyIdDraws : GetKeySelect(c, generate_key_id(i))
    \/ \E c \in Callers : GetKeyCheckExpiry(c)
    \/ \E c \in Callers : GetKeyLogAccess(c)

ConcurrentSpec == Init /\ [][ConcurrentNext]_vars

\* -------------------------------------------------- /login and the senders
\* re.match(r'^[^\s@]+@[^\s@]+\.[^\s@]+$', email) for the addresses tried
EmailMatches(email) == email \in {"a@x.io"}

\* len(app_password) != 16 or ' ' in app_password
BadAppPassword(app_password) ==
    \/ Len(app_password) # AppPasswordLength
    \/ \E i \in 1 .. Len(app_password) : app_password[i] = Space

\* status code of /login for the outcome of its SMTP and IMAP tests
ConnectionTestCode(test) ==
    CASE test = "smtp_auth" -> 401
      [] test = "imap" -> 401
      [] test = "timeout" -> 408
      [] test = "dns" -> 503
      [] OTHER -> 500

\* user_sessions[session_id] = {...}
StoreSession(sessions, session_id, session) ==
    [k \in DOMAIN sessions \cup {session_id} |->
        IF k = session_id THEN session ELSE sessions[k]]

LoginUnchanged ==
    UNCHANGED <<qkd_keys, key_usage_log, now, issued, reportedExpired, mail,
                inflight, found_calls>>

\* POST /login
Login(email, app_password, test, draw) ==
    /\ LoginUnchanged
    /\ IF email = "" \/ app_password = <<>> \/ ~ EmailMatches(email)
          \/ BadAppPassword(app_password)
       THEN /\ response' = [NoResponse EXCEPT !.op = "login", !.code = 400]
            /\ UNCHANGED user_sessions
       ELSE IF test # "ok"
       THEN /\ response' = [NoResponse EXCEPT !.op = "login",
                                !.code = ConnectionTestCode(test)]
            /\ UNCHANGED user_sessions
       ELSE /\ user_sessions' = StoreSession(user_sessions, draw,
                   [email |-> email, password |-> app_password,
                    created_at |-> IsoFormat(now),
                    expires_at |-> IsoFormat(now + SessionLifetimeSeconds
                                                       * TicksPerSecond)])
            /\ response' = [NoResponse EXCEPT !.op = "login", !.code = 200,
                                !.body = <<[session_id |-> draw,
                                            email |-> email]>>]

\* the requests to /login tried: a request refused on its fields is refused
\* before the connection test and the draw are used
LoginInputs ==
    {q \in LoginEmails \X AppPasswords \X ConnectionTests \X SessionDraws :
        (q[1] = "" \/ q[2] = <<>> \/ ~ EmailMatches(q[1])
            \/ BadAppPassword(q[2]))
        => /\ q[3] = "ok"
           /\ q[4] = (CHOOSE d \in SessionDraws : TRUE)}

\* variant: a session never runs out
SessionExpiredNever(session, t) == FALSE

\* utcnow() > fromisoformat(session['expires_at'])
SessionExpired(session, t) == t > FromIsoFormat(session.expires_at)

\* the early returns of /send_email: the status code, 0 when there is none
SendEmailRefusal(to_address, subject, body, session_id, sessions, t) ==
    IF to_address = "" \/ subject = "" \/ body = "" \/ session_id = ""
    THEN 400
    ELSE IF session_id \notin DOMAIN sessions THEN 401
    ELSE IF SessionExpired(sessions[session_id], t) THEN 401
    ELSE 0

\* status code of the routes when delivery raises
DeliveryFailureCode(op, smtp) ==
    IF op = "send_email" /\ smtp = "smtp_auth" THEN 401 ELSE 500

SendUnchanged ==
    UNCHANGED <<now, reportedExpired, mail, user_sessions, inflight,
                found_calls>>

\* variant: the key is committed when the message has been handed over
RequestKeyAndDeliverOneTransaction(op, sender, to_address, idDraw, keyDraw, smtp, request) ==
    LET lifetime == SendEmailLifetimeSeconds * TicksPerSecond
        key_id == generate_key_id(idDraw)
        row == NewKeyRow(key_id, generate_quantum_key(keyDraw), sender,
                         to_address, CreatedAt(now), ExpiresAt(now, lifetime))
        ins == InsertKey(qkd_keys, row)
    IN  IF ~ ins.ok
        THEN /\ response' = [NoResponse EXCEPT !.op = op, !.code = 500,
                                 !.request = request]
             /\ UNCHANGED <<qkd_keys, key_usage_log, issued>>
        ELSE /\ Len(qkd_keys) < MaxKeys
             /\ Len(key_usage_log) < MaxLog
             /\ IF smtp = "sent"
                THEN /\ qkd_keys' = ins.table
                     /\ key_usage_log' = LogGenerated(key_usage_log, key_id,
                                                      row.created_at)
                     /\ issued' = issued \cup
                           {[key_id |-> key_id, t0 |-> now,
                             lifetime |-> lifetime]}
                     /\ response' = [NoResponse EXCEPT !.op = op,
                            !.code = 200, !.key_id = <<key_id>>,
                            !.body = <<[status |-> "success",
                                        key_id |-> key_id]>>,
                            !.request = request]
                ELSE /\ response' = [NoResponse EXCEPT !.op = op,
                            !.code = DeliveryFailureCode(op, smtp),
                            !.key_id = <<key_id>>, !.fault = smtp,
                            !.request = request]
                     /\ UNCHANGED <<qkd_keys, key_usage_log, issued>>

\* key_manager.request_key(sender, to_address, 3600), which commits the key
\* and its KEY_GENERATED row, then encryption and the SMTP dialogue; the
\* message leaves the program and is no part of its state
RequestKeyAndDeliver(op, sender, to_address, idDraw, keyDraw, smtp, request) ==
    LET lifetime == SendEmailLifetimeSeconds * TicksPerSecond
        key_id == generate_key_id(idDraw)
        row == NewKeyRow(key_id, generate_quantum_key(keyDraw), sender,
                         to_address, CreatedAt(now), ExpiresAt(now, lifetime))
        ins == InsertKey(qkd_keys, row)
    IN  IF ~ ins.ok
        THEN /\ response' = [NoResponse EXCEPT !.op = op, !.code = 500,
                                 !.request = request]
             /\ UNCHANGED <<qkd_keys, key_usage_log, issued>>
        ELSE /\ Len(qkd_keys) < MaxKeys
             /\ Len(key_usage_log) < MaxLog
             /\ qkd_keys' = ins.table
             /\ key_usage_log' = LogGenerated(key_usage_log, key_id,
                                              row.created_at)
             /\ issued' = issued \cup
                   {[key_id |-> key_id, t0 |-> now, lifetime |-> lifetime]}
             /\ response' =
                   IF smtp = "sent"
                   THEN [NoResponse EXCEPT !.op = op,
                            !.code = 200, !.key_id = <<key_id>>,
                            !.body = <<[status |-> "success",
                                        key_id |-> key_id]>>,
                            !.request = request]
                   ELSE [NoResponse EXCEPT !.op = op,
                            !.code = DeliveryFailureCode(op, smtp),
                            !.key_id = <<key_id>>, !.fault = smtp,
                            !.request = request]

\* POST /send_email
SendEmail(to_address, subject, body, session_id, idDraw, keyDraw, smtp) ==
    LET request == <<[to |-> to_address, subject |-> subject, body |-> body,
                      session_id |-> session_id]>>
        refusal == SendEmailRefusal(to_address, subject, body, session_id,
                                    user_sessions, now)
    IN  /\ SendUnchanged
        /\ IF refusal # 0
           THEN /\ response' = [NoResponse EXCEPT !.op = "send_email",
                                    !.code = refusal, !.request = request]
                /\ UNCHANGED <<qkd_keys, key_usage_log, issued>>
           ELSE RequestKeyAndDeliver("send_email",
                    user_sessions[session_id].email, to_address, idDraw,
                    keyDraw, smtp, request)

\* the 'credentials' objects tried: complete, one member missing, absent
ApiCredentials ==
    {[smtpHost |-> "smtp.x.io", smtpPort |-> 587, email |-> "a@x.io",
      password |-> "pw"],
     [smtpHost |-> "smtp.x.io", smtpPort |-> 587, email |-> "a@x.io",
      password |-> ""],
     [smtpHost |-> "", smtpPort |-> 0, email |-> "", password |-> ""]}

\* POST /send_email_api
SendEmailApi(to_address, subject, body, credentials, idDraw, keyDraw, smtp) ==
    LET request == <<[to |-> to_address, subject |-> subject, body |-> body,
                      credentials |-> credentials]>>
    IN  /\ SendUnchanged
        /\ IF \/ to_address = "" \/ subject = "" \/ body = ""
              \/ credentials.smtpHost = "" \/ credentials.smtpPort = 0
              \/ credentials.email = "" \/ credentials.password = ""
           THEN /\ response' = [NoResponse EXCEPT !.op = "send_email_api",
                                    !.code = 400, !.request = request]
                /\ UNCHANGED <<qkd_keys, key_usage_log, issued>>
           ELSE RequestKeyAndDeliver("send_email_api", credentials.email,
                    to_address, idDraw, keyDraw, smtp, request)

\* a day goes by: the lifetime of a session
SessionLifetimePasses ==
    /\ now <= MaxTime
    /\ now' = now + SessionLifetimeSeconds * TicksPerSecond
    /\ response' = NoResponse
    /\ UNCHANGED <<qkd_keys, key_usage_log, issued, reportedExpired, mail,
                   user_sessions, inflight, found_calls>>

\* the requests to /send_email tried: complete ones and ones that lack one
\* field; a refused request is refused before the draws and the outcome of
\* delivery are used
SendInputs ==
    {q \in Recipients \X Subjects \X Bodies \X SessionIds \X KeyIdDraws
            \X KeyByteDraws \X SmtpOutcomes :
        /\ Cardinality({n \in 1 .. 4 : q[n] = ""}) <= 1
        /\ (\E n \in 1 .. 4 : q[n] = "")
           => /\ q[5] = (CHOOSE i \in KeyIdDraws : TRUE)
              /\ q[6] = (CHOOSE k \in KeyByteDraws : TRUE)
              /\ q[7] = "sent"}

\* the requests to /send_email_api tried, likewise
SendApiInputs ==
    {q \in Recipients \X Subjects \X Bodies \X ApiCredentials \X KeyIdDraws
            \X KeyByteDraws \X SmtpOutcomes :
        LET lacking == Cardinality({n \in 1 .. 3 : q[n] = ""})
                          + (IF q[4].password = "" THEN 1 ELSE 0)
        IN  /\ lacking <= 1
            /\ lacking = 1
               => /\ q[5] = (CHOOSE i \in KeyIdDraws : TRUE)
                  /\ q[6] = (CHOOSE k \in KeyByteDraws : TRUE)
                  /\ q[7] = "sent"}

SendNext ==
    \/ Tick
    \/ SessionLifetimePasses
    \/ \E q \in LoginInputs : Login(q[1], q[2], q[3], q[4])
    \/ \E q \in SendInputs :
          SendEmail(q[1], q[2], q[3], q[4], q[5], q[6], q[7])
    \/ \E q \in SendApiInputs :
          SendEmailApi(q[1], q[2], q[3], q[4], q[5], q[6], q[7])

SendSpec == Init /\ [][SendNext]_vars

\* ------------------------------------------- a failing write of the log
\* POST /request_key when the INSERT INTO key_usage_log raises: the INSERT
\* of the key is in the same transaction, 'with sqlite3.connect(...)' rolls
\* it back and the route answers 500
RequestKeyLogFailure(sender, recipient, larg, idDraw, keyDraw, d) ==
    LET key_id == generate_key_id(idDraw)
        row == NewKeyRow(key_id, generate_quantum_key(keyDraw), sender,
                         recipient, CreatedAt(now),
                         ExpiresAt(now + d, LifetimeOf(larg)))
    IN  /\ ~ MissingParty(sender, recipient)
        /\ InsertKey(qkd_keys, row).ok
        /\ now + d <= MaxTime
        /\ now' = now + d
        /\ response' = [NoResponse EXCEPT !.op = "request_key", !.code = 500,
                            !.key_id = <<key_id>>, !.fault = "log_write"]
        /\ UNCHANGED <<qkd_keys, key_usage_log, issued, reportedExpired, mail,
                       user_sessions, inflight, found_calls>>

\* GET /get_key/<key_id> when the INSERT INTO key_usage_log raises: the
\* UPDATE of an expired key was committed before, and the route answers 500
GetKeyLogFailure(key_id) ==
    LET rows == SelectKey(qkd_keys, key_id)
    IN  /\ rows # <<>>
        /\ found_calls[key_id] < MaxLog
        /\ qkd_keys' = IF IsExpired(now, rows[1].expires_at)
                       THEN UpdateExpired(qkd_keys, key_id)
                       ELSE qkd_keys
        /\ response' = [NoResponse EXCEPT !.op = "get_key", !.code = 500,
                            !.key_id = <<key_id>>, !.fault = "log_write"]
        /\ found_calls' = [found_calls EXCEPT ![key_id] = @ + 1]
        /\ UNCHANGED <<key_usage_log, now, issued, reportedExpired, mail,
                       user_sessions, inflight>>

FaultNext ==
    \/ Tick
    \/ \E q \in ConcurrentRequestInputs :
          RequestKey(q[1], q[2], q[3], q[4], q[5], q[6])
    \/ \E q \in ConcurrentRequestInputs :
          RequestKeyLogFailure(q[1], q[2], q[3], q[4], q[5], q[6])
    \/ \E i \in KeyIdDraws : GetKey(generate_key_id(i))
    \/ \E i \in KeyIdDraws : GetKeyLogFailure(generate_key_id(i))

FaultSpec == Init /\ [][FaultNext]_vars

\* ================================================================= claims
RowsOf(key_id) == SelectKey(qkd_keys, key_id)

Terminal(status) == status \in {"expired", "consumed"}

\* a GetKey answer about key_id that found the record
GetKeyFound(key_id) ==
    /\ response.op = "get_key"
    /\ response.key_id = <<key_id>>
    /\ response.mgr # <<>>

\* ---------------------------------------------------------------------- C1
\* C1: key status is monotonic: a record whose status is 'expired' (or
\* 'consumed') keeps that status under every operation; it is never removed,
\* never 'active' again.
C1_StatusMonotonic ==
    [][\A i \in 1 .. Len(qkd_keys) :
          Terminal(qkd_keys[i].status) =>
             /\ \E j \in 1 .. Len(qkd_keys') :
                   qkd_keys'[j].key_id = qkd_keys[i].key_id
             /\ \A j \in 1 .. Len(qkd_keys') :
                   qkd_keys'[j].key_id = qkd_keys[i].key_id =>
                      qkd_keys'[j].status = qkd_keys[i].status]_vars

\* a RequestKey drew the identifier of a record that is already expired
C1_Witness ==
    /\ response.op = "request_key"
    /\ response.key_id # <<>>
    /\ \E i \in 1 .. Len(qkd_keys) :
          /\ qkd_keys[i].key_id = response.key_id[1]
          /\ qkd_keys[i].status = "expired"

\* ---------------------------------------------------------------------- C2
\* C2: for every lifetime L > 0, a key requested at t0 is stored as 'active'
\* as long as now < t0+L, and every GetKey issued at t0 <= t < t0+L answers
\* 200 with status 'active'.
C2_ActiveWithinLifetime ==
    \A g \in issued :
       g.lifetime > 0 =>
          /\ now < g.t0 + g.lifetime =>
                \A i \in 1 .. Len(qkd_keys) :
                   qkd_keys[i].key_id = g.key_id => qkd_keys[i].status = "active"
          /\ (GetKeyFound(g.key_id) /\ now < g.t0 + g.lifetime) =>
                /\ response.code = 200
                /\ response.mgr[1].status = "active"

\* a GetKey inside the window, later than the request itself
C2_Witness ==
    \E g \in issued :
       /\ g.lifetime > 0
       /\ GetKeyFound(g.key_id)
       /\ g.t0 < now
       /\ now < g.t0 + g.lifetime
       /\ response.mgr[1].status = "active"

\* ---------------------------------------------------------------------- C3
\* C3 as stated: for every lifetime L > 0 a GetKey issued at any t >= t0+L,
\* the boundary instant included, reports 'expired'.
C3_ExpiredFromLifetimeEnd ==
    \A g \in issued :
       (g.lifetime > 0 /\ GetKeyFound(g.key_id)
          /\ now >= g.t0 + g.lifetime) =>
             response.mgr[1].status = "expired"

\* C3 amended: for every lifetime L > 0 a GetKey issued strictly after the
\* stored expires_at (which is >= t0+L) reports 'expired' and is answered
\* 410; a GetKey issued at t = expires_at exactly still reports 'active'.
C3_ExpiredAfterExpiresAt ==
    \A g \in issued :
       (g.lifetime > 0 /\ GetKeyFound(g.key_id)) =>
          \A i \in 1 .. Len(qkd_keys) :
             qkd_keys[i].key_id = g.key_id =>
                LET expires == FromIsoFormat(qkd_keys[i].expires_at)
                IN  /\ expires >= g.t0 + g.lifetime
                    /\ now > expires =>
                          /\ response.mgr[1].status = "expired"
                          /\ response.code = 410
                    /\ now = expires =>
                          response.mgr[1].status = "active"

\* the first GetKey of a key finds it past its expires_at
C3_Witness ==
    \E g \in issued :
       /\ g.lifetime > 0
       /\ GetKeyFound(g.key_id)
       /\ response.mgr[1].status = "expired"
       /\ now > FromIsoFormat(response.mgr[1].expires_at)
       /\ Cardinality({n \in 1 .. Len(key_usage_log) :
             /\ key_usage_log[n].key_id = g.key_id
             /\ key_usage_log[n].action = "KEY_ACCESSED"}) = 1

\* ---------------------------------------------------------------------- C4
\* C4: once a GetKey has reported a key as 'expired', the stored record is
\* 'expired', and every later GetKey and every later listing report it as
\* 'expired'.
C4_ExpiryPersisted ==
    \A k \in reportedExpired :
       /\ RowsOf(k) # <<>>
       /\ \A i \in 1 .. Len(qkd_keys) :
             qkd_keys[i].key_id = k => qkd_keys[i].status = "expired"
       /\ (response.op = "get_key" /\ response.key_id = <<k>>) =>
             /\ response.mgr # <<>>
             /\ response.mgr[1].status = "expired"
       /\ response.op = "list_keys" =>
             /\ \A n \in 1 .. Len(response.keys) :
                   response.keys[n].key_id = k =>
                      response.keys[n].status = "expired"
             /\ Len(qkd_keys) <= ListLimit =>
                   \E n \in 1 .. Len(response.keys) : response.keys[n].key_id = k

\* a listing issued after a key was reported expired
C4_Witness ==
    /\ response.op = "list_keys"
    /\ \E n \in 1 .. Len(response.keys) :
          response.keys[n].key_id \in reportedExpired

\* ---------------------------------------------------------------------- C5
\* C5: a GetKey for a key_id without record is answered 404 (None from the
\* manager) and changes neither qkd_keys nor key_usage_log.
C5_UnknownKeyNotFound ==
    [][(/\ \/ response' # response
           \/ qkd_keys' # qkd_keys
           \/ key_usage_log' # key_usage_log
        /\ response'.op = "get_key"
        /\ SelectKey(qkd_keys, response'.key_id[1]) = <<>>) =>
          /\ response'.code = 404
          /\ response'.mgr = <<>>
          /\ response'.body = <<>>
          /\ qkd_keys' = qkd_keys
          /\ key_usage_log' = key_usage_log]_vars

\* an unknown key_id was asked for while the store holds other keys
C5_Witness ==
    /\ response.op = "get_key"
    /\ response.code = 404
    /\ RowsOf(response.key_id[1]) = <<>>
    /\ Len(qkd_keys) > 0
    /\ Len(key_usage_log) > 0

\* ---------------------------------------------------------------------- C6
\* C6: a RequestKey answered 200 adds exactly one record, with status
\* 'active', and appends exactly one KEY_GENERATED log row for its key_id;
\* the records and log rows stored before are unchanged.
C6_RequestKeyAddsOne ==
    [][(/\ response' # response
        /\ response'.op = "request_key"
        /\ response'.code = 200) =>
          LET k == response'.key_id[1]
              nk == Len(qkd_keys)
              nl == Len(key_usage_log)
          IN  /\ Len(qkd_keys') = nk + 1
              /\ SubSeq(qkd_keys', 1, nk) = qkd_keys
              /\ qkd_keys'[nk + 1].key_id = k
              /\ qkd_keys'[nk + 1].status = "active"
              /\ Len(key_usage_log') = nl + 1
              /\ SubSeq(key_usage_log', 1, nl) = key_usage_log
              /\ key_usage_log'[nl + 1].key_id = k
              /\ key_usage_log'[nl + 1].action = "KEY_GENERATED"]_vars

\* a successful RequestKey into a store that already held a record
C6_Witness ==
    /\ response.op = "request_key"
    /\ response.code = 200
    /\ Len(qkd_keys) >= 2
    /\ qkd_keys[Len(qkd_keys)].key_id = response.key_id[1]
    /\ key_usage_log[Len(key_usage_log)].action = "KEY_GENERATED"

\* ---------------------------------------------------------------------- C7
\* C7: RequestKey is answered 400, and creates nothing, whenever sender is
\* empty, recipient is empty, or lifetime <= 0.
C7_InvalidRequestRejected ==
    [][\A s \in Senders, r \in Recipients, l \in LifetimeArgs,
          i \in KeyIdDraws, k \in KeyByteDraws, d \in 0 .. MaxDrift :
          (/\ RequestKey(s, r, l, i, k, d)
           /\ (s = "" \/ r = "" \/ LifetimeOf(l) <= 0)) =>
             /\ response'.code = 400
             /\ qkd_keys' = qkd_keys
             /\ key_usage_log' = key_usage_log]_vars

\* ---------------------------------------------------------------------- C8
HasKeyMaterial(rec) == "key_b64" \in DOMAIN rec

\* C8 as stated: no result of GetKey or of the key listing contains key_b64.
C8_OnlyRequestKeyReturnsMaterial ==
    response.op \in {"get_key", "list_keys"} =>
       /\ \A n \in 1 .. Len(response.mgr) : ~ HasKeyMaterial(response.mgr[n])
       /\ \A n \in 1 .. Len(response.body) : ~ HasKeyMaterial(response.body[n])
       /\ \A n \in 1 .. Len(response.keys) : ~ HasKeyMaterial(response.keys[n])

\* C8 amended: RequestKey and GetKey are the only operations that return key
\* material: no entry of the key listing contains key_b64.
C8_ListingHasNoKeyMaterial ==
    response.op = "list_keys" =>
       /\ response.mgr = <<>>
       /\ response.body = <<>>
       /\ \A n \in 1 .. Len(response.keys) : ~ HasKeyMaterial(response.keys[n])

\* a listing of a store that holds keys
C8_Witness ==
    /\ response.op = "list_keys"
    /\ Len(response.keys) >= 1
    /\ Len(response.keys) = Len(qkd_keys)

\* ---------------------------------------------------------------------- C9
UniqueKeyIds ==
    \A i, j \in 1 .. Len(qkd_keys) :
       qkd_keys[i].key_id = qkd_keys[j].key_id => i = j

\* C9: no two records share a key_id, and a RequestKey that draws a key_id
\* already in the store leaves the store and the log as they were.
C9_KeyIdUnique ==
    /\ [] UniqueKeyIds
    /\ [][(/\ response' # response
           /\ response'.op = "request_key"
           /\ response'.key_id # <<>>
           /\ SelectKey(qkd_keys, response'.key_id[1]) # <<>>) =>
             /\ qkd_keys' = qkd_keys
             /\ key_usage_log' = key_usage_log
             /\ response'.code = 500]_vars

\* a RequestKey drew a key_id that was in the store
C9_Witness ==
    /\ response.op = "request_key"
    /\ response.code = 500
    /\ response.key_id # <<>>
    /\ Len(RowsOf(response.key_id[1])) = 1

\* --------------------------------------------------------------------- C10
\* C10 as stated: GetKey on an existing key hands the caller the record with
\* its current status, whatever the status, and not an error.
C10_RecordWhateverStatus ==
    (response.op = "get_key" /\ RowsOf(response.key_id[1]) # <<>>) =>
       /\ response.code = 200
       /\ Len(response.body) = 1
       /\ response.body[1].status = RowsOf(response.key_id[1])[1].status

\* C10 amended: QKDKeyManager.get_key returns the record of an existing key
\* with its current status, whatever the status; the /get_key route hands the
\* record to the caller unless the status is 'expired', which it answers with
\* the error 410.
C10_ManagerReturnsRecord ==
    (response.op = "get_key" /\ RowsOf(response.key_id[1]) # <<>>) =>
       LET row == RowsOf(response.key_id[1])[1]
       IN  /\ Len(response.mgr) = 1
           /\ response.mgr[1].key_id = row.key_id
           /\ response.mgr[1].key_b64 = row.key_b64
           /\ response.mgr[1].expires_at = row.expires_at
           /\ response.mgr[1].status = row.status
           /\ row.status # "expired" =>
                 response.code = 200 /\ response.body = response.mgr
           /\ row.status = "expired" =>
                 response.code = 410 /\ response.body = <<>>

\* the manager returned the record of an expired key
C10_Witness ==
    /\ response.op = "get_key"
    /\ Len(response.mgr) = 1
    /\ response.mgr[1].status = "expired"
    /\ response.code = 410

\* --------------------------------------------------------------------- C11
\* C11: the usage log is append-only: every step leaves the rows already in
\* key_usage_log where and as they were (the old log is a prefix of the new).
C11_LogAppendOnly ==
    [][/\ Len(key_usage_log') >= Len(key_usage_log)
       /\ SubSeq(key_usage_log', 1, Len(key_usage_log)) = key_usage_log]_vars

\* a GetKey has appended its row behind older rows
C11_Witness ==
    /\ response.op = "get_key"
    /\ Len(key_usage_log) >= 3
    /\ key_usage_log[1].action = "KEY_GENERATED"
    /\ key_usage_log[Len(key_usage_log)].action = "KEY_ACCESSED"

\* --------------------------------------------------------------------- C12
\* C12: a record is never deleted and, but for its status, never changes
\* (key_id, key material, sender, recipient, created_at, expires_at stay);
\* GetKey and the listing add no record.
C12_RecordFrame ==
    [][/\ \A i \in 1 .. Len(qkd_keys) :
             /\ i <= Len(qkd_keys')
             /\ [qkd_keys'[i] EXCEPT !.status = qkd_keys[i].status] = qkd_keys[i]
       /\ response'.op \in {"get_key", "list_keys"} =>
             Len(qkd_keys') = Len(qkd_keys)]_vars

\* a GetKey re-observed a key that an earlier GetKey had found expired
C12_Witness ==
    /\ response.op = "get_key"
    /\ response.mgr # <<>>
    /\ response.mgr[1].status = "expired"
    /\ Cardinality({n \in 1 .. Len(key_usage_log) :
          /\ key_usage_log[n].key_id = response.key_id[1]
          /\ key_usage_log[n].action = "KEY_ACCESSED"}) >= 2

\* --------------------------------------------------------------------- C15
\* C15: a listing returns at most ListLimit records, the most recently
\* created ones, and every returned record comes before every returned
\* record that was created earlier.
C15_ListNewestFirst ==
    response.op = "list_keys" =>
        LET keys == response.keys
        IN  /\ Len(keys) <= ListLimit
            /\ Len(keys) = IF Len(qkd_keys) < ListLimit THEN Len(qkd_keys)
                           ELSE ListLimit
            /\ \A i, j \in 1 .. Len(keys) :
                  FromIsoFormat(keys[j].created_at)
                      < FromIsoFormat(keys[i].created_at) => i < j
            /\ \A k \in 1 .. Len(qkd_keys) :
                  (\A i \in 1 .. Len(keys) : keys[i].key_id # qkd_keys[k].key_id)
                      => \A i \in 1 .. Len(keys) :
                            FromIsoFormat(qkd_keys[k].created_at)
                                <= FromIsoFormat(keys[i].created_at)

\* --------------------------------------------------------------------- C20
\* C20: for every stored key, expires_at is created_at plus the requested
\* lifetime, exactly.
C20_ExpiresAtExact ==
    \A g \in issued : \A i \in 1 .. Len(qkd_keys) :
        qkd_keys[i].key_id = g.key_id =>
            FromIsoFormat(qkd_keys[i].expires_at)
                = FromIsoFormat(qkd_keys[i].created_at) + g.lifetime

\* --------------------------------------------------------------------- C13
\* C13: a ConsumeKey on an active key succeeds and sets its status to
\* 'consumed'; a ConsumeKey on a consumed key answers AlreadyConsumed (409);
\* a GetKey of a consumed key returns the record with status 'consumed'.
C13_ConsumeOnce ==
    [][\A i \in 1 .. Len(qkd_keys) :
          LET row == qkd_keys[i]
          IN  /\ ( /\ response'.op = "consume_key"
                   /\ response'.key_id = <<row.key_id>>
                   /\ row.status = "active"
                   /\ ~ IsExpired(now, row.expires_at) )
                  => /\ response'.code = 200
                     /\ qkd_keys'[i].status = "consumed"
              /\ ( /\ response'.op = "consume_key"
                   /\ response'.key_id = <<row.key_id>>
                   /\ row.status = "consumed" )
                  => /\ response'.code = 409
                     /\ qkd_keys'[i] = row
              /\ ( /\ response'.op = "get_key"
                   /\ response'.key_id = <<row.key_id>>
                   /\ row.status = "consumed" )
                  => /\ response'.mgr # <<>>
                     /\ response'.mgr[1].status = "consumed"]_vars

\* --------------------------------------------------------------------- C14
\* C14: a ConsumeKey on a key whose expires_at has passed answers KeyExpired
\* (410) and the key does not become 'consumed'.
C14_ConsumeExpired ==
    [][\A i \in 1 .. Len(qkd_keys) :
          ( /\ response'.op = "consume_key"
            /\ response'.key_id = <<qkd_keys[i].key_id>>
            /\ IsExpired(now, qkd_keys[i].expires_at) )
          => /\ response'.code = 410
             /\ qkd_keys'[i].status # "consumed"]_vars

\* --------------------------------------------------------------------- C16
\* C16: for every plaintext M, the empty one included, and every key K,
\* decrypting with K the (ciphertext, nonce, tag) that encrypting M under K
\* produced returns exactly M.
C16_EncryptionRoundTrip ==
    (mail.stage = "received" /\ mail.tampered = "none") =>
        /\ mail.result[1].decrypted
        /\ mail.result[1].decrypted_body = <<mail.plaintext>>

\* a message with a two-byte character has made the trip
C16_Witness ==
    /\ mail.stage = "received"
    /\ mail.variant = "smtp"
    /\ mail.tampered = "none"
    /\ mail.plaintext = <<233, 65>>
    /\ mail.result[1].decrypted
    /\ mail.result[1].decrypted_body = <<mail.plaintext>>

\* --------------------------------------------------------------------- C17
\* C17: when a bit of the ciphertext or of the tag of a valid envelope is
\* flipped, or another key is used, Decrypt fails and returns no plaintext.
C17_TamperSensitivity ==
    (mail.stage = "received" /\ mail.tampered \in {"ciphertext", "tag", "key"})
        => /\ ~ mail.result[1].decrypted
           /\ mail.result[1].decrypted_body = <<>>
           /\ mail.result[1].decrypt_error

\* a letter with a flipped tag bit was refused
C17_Witness ==
    /\ mail.stage = "received"
    /\ mail.variant = "smtp"
    /\ mail.tampered = "tag"
    /\ mail.plaintext # <<>>
    /\ mail.result[1].payload # <<>>
    /\ mail.result[1].decrypt_error

\* --------------------------------------------------------------------- C18
\* C18: the version of the envelope is bound to the ciphertext as associated
\* data: with the version field changed, Decrypt fails although key, nonce,
\* ciphertext and tag are the right ones.
C18_VersionBound ==
    (mail.stage = "received" /\ mail.tampered = "version")
        => ~ mail.result[1].decrypted

\* --------------------------------------------------------------------- C19
\* C19: the receiver recognises the delivered message as a QuMail message
\* and its extraction returns the envelope record the sender embedded, every
\* field (version, algorithm, key_id, nonce, ciphertext, tag, timestamp)
\* equal.
C19_EnvelopeRoundTrip ==
    (mail.stage = "received" /\ mail.variant = "smtp"
        /\ mail.tampered = "none")
        => /\ mail.result[1].is_qumail
           /\ mail.result[1].payload # <<>>
           /\ DOMAIN mail.result[1].payload[1]
                 = {PayloadFields[i] : i \in 1 .. Len(PayloadFields)}
           /\ \A i \in 1 .. Len(PayloadFields) :
                 mail.result[1].payload[1][PayloadFields[i]]
                     = mail.sent[1][PayloadFields[i]]

\* an envelope delivered with "\r\n" line ends was extracted
C19_Witness ==
    /\ mail.stage = "received"
    /\ mail.variant = "smtp"
    /\ mail.tampered = "none"
    /\ mail.body[1].cr
    /\ mail.plaintext # <<>>
    /\ mail.result[1].is_qumail
    /\ mail.result[1].payload = mail.sent

\* --------------------------------------------------------------------- C21
\* C21 as stated: a GetKey appends a KEY_ACCESSED row only when the key it
\* retrieves is not expired; a GetKey that finds or makes the key 'expired'
\* appends none.
C21_AccessedOnlyIfNotExpired ==
    [][(/\ response'.op = "get_key"
        /\ response'.mgr # <<>>
        /\ response'.mgr[1].status = "expired")
       => key_usage_log' = key_usage_log]_vars

\* C21 amended: every GetKey that finds the key appends exactly one
\* KEY_ACCESSED row for it, whether the key is active or expired.
C21_AccessedWheneverFound ==
    [][(response'.op = "get_key" /\ response'.mgr # <<>>)
       => /\ Len(key_usage_log') = Len(key_usage_log) + 1
          /\ SubSeq(key_usage_log', 1, Len(key_usage_log)) = key_usage_log
          /\ key_usage_log'[Len(key_usage_log')].action = "KEY_ACCESSED"
          /\ key_usage_log'[Len(key_usage_log')].key_id
                = response'.mgr[1].key_id]_vars

\* a GetKey that reported 'expired' has written its KEY_ACCESSED row
C21_Witness ==
    /\ response.op = "get_key"
    /\ response.code = 410
    /\ key_usage_log # <<>>
    /\ key_usage_log[Len(key_usage_log)].action = "KEY_ACCESSED"
    /\ key_usage_log[Len(key_usage_log)].key_id = response.key_id[1]

\* --------------------------------------------------------------------- C25
\* C25: the /get_key route answers 410 without key_data whenever the manager
\* reports 'expired', and answers 200 with key_data only for a key that is
\* 'active' (stored so and not past expires_at) at that call.
C25_NoMaterialForExpired ==
    response.op = "get_key" =>
        /\ (response.mgr # <<>> /\ response.mgr[1].status = "expired")
              => (response.code = 410 /\ response.body = <<>>)
        /\ response.code = 200
              => /\ response.body # <<>>
                 /\ response.body[1].status = "active"
                 /\ \E i \in 1 .. Len(qkd_keys) :
                       /\ qkd_keys[i].key_id = response.key_id[1]
                       /\ qkd_keys[i].status = "active"
                       /\ ~ IsExpired(now, qkd_keys[i].expires_at)
        /\ response.code # 200 => response.body = <<>>

\* the route has refused an expired key that the manager did return
C25_Witness ==
    /\ response.op = "get_key"
    /\ response.code = 410
    /\ response.mgr # <<>>
    /\ response.mgr[1].key_b64 = generate_quantum_key("5d2e")
    /\ response.body = <<>>

\* --------------------------------------------------------------------- C26
\* C26: in the usage log the KEY_GENERATED row of a key_id precedes every
\* KEY_ACCESSED row of it, every key record has exactly one KEY_GENERATED
\* row, and every row names a key_id that is in the key store.
C26_LogWellFormed ==
    /\ \A n \in 1 .. Len(key_usage_log) :
          /\ \E i \in 1 .. Len(qkd_keys) :
                qkd_keys[i].key_id = key_usage_log[n].key_id
          /\ key_usage_log[n].action = "KEY_ACCESSED"
                => \E m \in 1 .. n - 1 :
                      /\ key_usage_log[m].key_id = key_usage_log[n].key_id
                      /\ key_usage_log[m].action = "KEY_GENERATED"
    /\ \A i \in 1 .. Len(qkd_keys) :
          Cardinality({n \in 1 .. Len(key_usage_log) :
              /\ key_usage_log[n].key_id = qkd_keys[i].key_id
              /\ key_usage_log[n].action = "KEY_GENERATED"}) = 1

\* two keys were generated and the first one accessed in between
C26_Witness ==
    /\ Len(qkd_keys) = 2
    /\ Len(key_usage_log) = 3
    /\ key_usage_log[1].action = "KEY_GENERATED"
    /\ key_usage_log[2].action = "KEY_ACCESSED"
    /\ key_usage_log[3].action = "KEY_GENERATED"
    /\ key_usage_log[3].key_id # key_usage_log[1].key_id

\* --------------------------------------------------------------------- C29
\* C29: decrypt_qumail_email reports a QuMail message as decrypted only
\* when the extraction of the payload, the retrieval of the key (status
\* 200) and the authenticated decryption have all succeeded; when one of
\* them fails decrypted is False, decrypted_body is unset and decrypt_error
\* is set, and on success decrypted is True and there is no decrypt_error.
C29_DecryptedOnlyOnSuccess ==
    (mail.stage = "received" /\ mail.variant = "smtp"
        /\ mail.result[1].is_qumail)
    => LET r == mail.result[1]
           extracted == extract_encrypted_payload(mail.body)
           success ==
               /\ extracted # <<>>
               /\ mail.key_code = 200
               /\ {"ciphertext", "nonce", "tag"} \subseteq DOMAIN extracted[1]
               /\ decrypt_message(extracted[1]["ciphertext"],
                      extracted[1]["nonce"], extracted[1]["tag"],
                      mail.rkey_b64).ok
       IN  /\ r.decrypted = success
           /\ r.decrypted => mail.tampered \in {"none", "version"}
           /\ success => ~ r.decrypt_error
           /\ ~ success => /\ r.decrypted_body = <<>>
                           /\ r.decrypt_error

\* a message whose key the Key Manager reports as expired was not decrypted
C29_Witness ==
    /\ mail.stage = "received"
    /\ mail.variant = "smtp"
    /\ mail.key_code = 410
    /\ mail.result[1].payload # <<>>
    /\ ~ mail.result[1].decrypted
    /\ mail.result[1].decrypted_body = <<>>
    /\ mail.result[1].decrypt_error

\* --------------------------------------------------------------------- C30
\* C30: a listing changes no key record and appends no log row, and shows
\* every key with its stored status: it performs no lazy expiry.
C30_ListingReadOnly ==
    [][response'.op = "list_keys"
       => /\ qkd_keys' = qkd_keys
          /\ key_usage_log' = key_usage_log
          /\ \A n \in 1 .. Len(response'.keys) :
                \E i \in 1 .. Len(qkd_keys) :
                   /\ qkd_keys[i].key_id = response'.keys[n].key_id
                   /\ qkd_keys[i].status = response'.keys[n].status]_vars

\* a key past its expires_at was listed as 'active'
C30_Witness ==
    /\ response.op = "list_keys"
    /\ \E n \in 1 .. Len(response.keys) :
          /\ response.keys[n].status = "active"
          /\ IsExpired(now, response.keys[n].expires_at)

\* --------------------------------------------------------------------- C22
\* the rows of the usage log that name key_id
LogRowsOf(key_id) ==
    {n \in 1 .. Len(key_usage_log) : key_usage_log[n].key_id = key_id}

\* C22: the usage log holds, for every key, its KEY_GENERATED row and one
\* row for every get_key call that found the key, however the calls
\* overlap; a call that is still inside get_key has its row yet to write.
C22_LogCountsCalls ==
    \A k \in KeyIds :
        IF \E i \in 1 .. Len(qkd_keys) : qkd_keys[i].key_id = k
        THEN Cardinality(LogRowsOf(k))
                 + Cardinality({c \in InFlight : inflight[c].key_id = <<k>>})
             = 1 + found_calls[k]
        ELSE LogRowsOf(k) = {} /\ found_calls[k] = 0

\* two overlapping calls for one key have both written their rows
C22_Witness ==
    /\ InFlight = {}
    /\ \E k \in KeyIds :
          /\ found_calls[k] = 2
          /\ Cardinality(LogRowsOf(k)) = 3
          /\ \E n \in LogRowsOf(k) : \E m \in LogRowsOf(k) :
                /\ n < m
                /\ key_usage_log[n].action = "KEY_ACCESSED"
                /\ key_usage_log[m].action = "KEY_ACCESSED"
                /\ key_usage_log[m].timestamp = key_usage_log[n].timestamp

\* --------------------------------------------------------------------- C23
\* C23: however get_key calls for a key past its expiry interleave, once a
\* call has found the key expired the stored status is 'expired' and stays
\* so, expires_at never changes and no write takes a record out of 'expired'.
C23_ConcurrentExpiry ==
    /\ [](/\ \A c \in Callers :
                (inflight[c].pc = "checked"
                    /\ inflight[c].key_data[1].status = "expired")
                => \E i \in 1 .. Len(qkd_keys) :
                      /\ qkd_keys[i].key_id = inflight[c].key_data[1].key_id
                      /\ qkd_keys[i].status = "expired"
          /\ \A i \in 1 .. Len(qkd_keys) :
                qkd_keys[i].key_id \in reportedExpired
                    => qkd_keys[i].status = "expired")
    /\ [][\A i \in 1 .. Len(qkd_keys) :
             /\ qkd_keys'[i].expires_at = qkd_keys[i].expires_at
             /\ qkd_keys[i].status = "expired"
                   => qkd_keys'[i].status = "expired"]_vars

\* two calls for one key have both found it expired and written the status,
\* and neither has written its log row yet
C23_Witness ==
    /\ \A c \in Callers :
          /\ inflight[c].pc = "checked"
          /\ inflight[c].key_data[1].status = "expired"
          /\ inflight[c].key_id = inflight["t1"].key_id
    /\ key_usage_log[Len(key_usage_log)].action = "KEY_GENERATED"

\* --------------------------------------------------------------------- C24
\* C24: a failing write of the usage log neither blocks nor rolls back the
\* operation it belongs to: when the KEY_GENERATED row cannot be written
\* the key of that request_key is in the store all the same, and when the
\* KEY_ACCESSED row cannot be written the expiry that get_key has found is
\* stored all the same.
C24_LogFailureKeepsOperation ==
    [][response'.fault = "log_write"
       => /\ response'.op = "request_key"
             => \E i \in 1 .. Len(qkd_keys') :
                   /\ qkd_keys'[i].key_id = response'.key_id[1]
                   /\ \A j \in 1 .. Len(qkd_keys) :
                         qkd_keys[j].key_id # response'.key_id[1]
          /\ response'.op = "get_key"
             => \A i \in 1 .. Len(qkd_keys) :
                   (qkd_keys[i].key_id = response'.key_id[1]
                       /\ now > FromIsoFormat(qkd_keys[i].expires_at))
                   => qkd_keys'[i].status = "expired"]_vars

\* --------------------------------------------------------------------- C27
\* C27: /send_email asks for no key unless the request is complete and
\* names a known session that has not run out: a request that lacks a
\* field is answered 400, one with an unknown or expired session 401, and
\* the key store and the usage log are as before.
C27_RefusedSendRequestsNoKey ==
    [][response'.op = "send_email"
       => LET r == response'.request[1]
              incomplete == r.to = "" \/ r.subject = "" \/ r.body = ""
                               \/ r.session_id = ""
              unknown == r.session_id \notin DOMAIN user_sessions
              expired == /\ ~ unknown
                         /\ now > FromIsoFormat(
                                user_sessions[r.session_id].expires_at)
          IN  /\ incomplete => response'.code = 400
              /\ (~ incomplete /\ (unknown \/ expired))
                    => response'.code = 401
              /\ (incomplete \/ unknown \/ expired)
                    => /\ qkd_keys' = qkd_keys
                       /\ key_usage_log' = key_usage_log]_vars

\* a complete request that names a session which has run out was answered
\* 401 while keys are in the store
C27_Witness ==
    /\ response.op = "send_email"
    /\ response.code = 401
    /\ response.request[1].session_id \in DOMAIN user_sessions
    /\ now > FromIsoFormat(
           user_sessions[response.request[1].session_id].expires_at)
    /\ Len(qkd_keys) > 0

\* --------------------------------------------------------------------- C28
\* C28: in /send_email and /send_email_api the key is requested and
\* committed before delivery: when the SMTP login or the sending fails the
\* route answers with an error, and the new key, 'active', and its
\* KEY_GENERATED row are in the store; no later step takes them out.
C28_KeyOutlivesFailedDelivery ==
    /\ [][(response'.op \in {"send_email", "send_email_api"}
             /\ response'.fault \in {"smtp_auth", "smtp"})
          => /\ response'.code \in {401, 500}
             /\ Len(qkd_keys') = Len(qkd_keys) + 1
             /\ qkd_keys'[Len(qkd_keys')].key_id = response'.key_id[1]
             /\ qkd_keys'[Len(qkd_keys')].status = "active"
             /\ Len(key_usage_log') = Len(key_usage_log) + 1
             /\ key_usage_log'[Len(key_usage_log')].key_id
                   = response'.key_id[1]
             /\ key_usage_log'[Len(key_usage_log')].action
                   = "KEY_GENERATED"]_vars
    /\ [][/\ Len(qkd_keys') >= Len(qkd_keys)
          /\ Len(key_usage_log') >= Len(key_usage_log)
          /\ \A i \in 1 .. Len(qkd_keys) :
                qkd_keys'[i].key_id = qkd_keys[i].key_id
          /\ \A n \in 1 .. Len(key_usage_log) :
                key_usage_log'[n] = key_usage_log[n]]_vars

\* /send_email answered 401 for a refused SMTP login and the key it asked
\* for is in the store with its KEY_GENERATED row
C28_Witness ==
    /\ response.op = "send_email"
    /\ response.fault = "smtp_auth"
    /\ response.code = 401
    /\ \E i \in 1 .. Len(qkd_keys) :
          /\ qkd_keys[i].key_id = response.key_id[1]
          /\ qkd_keys[i].status = "active"
    /\ \E n \in 1 .. Len(key_usage_log) :
          /\ key_usage_log[n].key_id = response.key_id[1]
          /\ key_usage_log[n].action = "KEY_GENERATED"

=============================================================================
